---- MODULE Spec2Model ----
(***************************************************************************)
(* A model of BlogScraper (src/scraper.py): the link classifier            *)
(* (find_blog_links, find_pagination_links), the content extractor         *)
(* (extract_blog_content), the persistence step (save_post) and the crawl  *)
(* driver (scrape).                                                        *)
(*                                                                         *)
(* Strings (URLs, hrefs, titles, file names) are sequences of one-letter   *)
(* strings, so that startswith, urljoin, urlparse, the regular expressions *)
(* and re.sub are computed character by character as the code does.  The   *)
(* characters are those a string of the module can hold: U+0001 to U+00FF  *)
(* without U+0060 (the character classes below are Python's, cut to that   *)
(* range).  A URL of the model has no '[' or ']' (urlparse raises          *)
(* ValueError on a malformed IPv6 host; exceptions are not modelled).      *)
(***************************************************************************)
EXTENDS Integers, Sequences, FiniteSets, TLC

\* ------------------------------------------------------------------ strings

LowerLetters == <<"a","b","c","d","e","f","g","h","i","j","k","l","m",
                  "n","o","p","q","r","s","t","u","v","w","x","y","z">>
UpperLetters == <<"A","B","C","D","E","F","G","H","I","J","K","L","M",
                  "N","O","P","Q","R","S","T","U","V","W","X","Y","Z">>
Digits == {"0","1","2","3","4","5","6","7","8","9"}
Range(s) == {s[i] : i \in 1..Len(s)}
Letters == Range(LowerLetters) \cup Range(UpperLetters)

\* str.lower() on one character of a scheme (SchemeChars)
LowerChar(c) ==
  IF \E i \in 1..26 : UpperLetters[i] = c
  THEN LowerLetters[CHOOSE i \in 1..26 : UpperLetters[i] = c]
  ELSE c
Lower(s) == [i \in 1..Len(s) |-> LowerChar(s[i])]

Min(a, b) == IF a < b THEN a ELSE b

\* s[:n] and s[n:] for n >= 0
Take(s, n) == SubSeq(s, 1, Min(n, Len(s)))
Drop(s, n) == SubSeq(s, n + 1, Len(s))

\* str.startswith
startswith(s, p) == Len(p) <= Len(s) /\ SubSeq(s, 1, Len(p)) = p

\* str.find(c) + 1: the 1-based place of the first c, 0 when there is none
Find(s, c) ==
  IF \E i \in 1..Len(s) : s[i] = c
  THEN CHOOSE i \in 1..Len(s) : s[i] = c /\ \A j \in 1..(i - 1) : s[j] # c
  ELSE 0

\* str.split(c): the pieces between the occurrences of c
RECURSIVE Split(_, _)
Split(s, c) ==
  LET i == Find(s, c)
  IN IF i = 0 THEN <<s>> ELSE <<SubSeq(s, 1, i - 1)>> \o Split(Drop(s, i), c)

\* c.join(parts)
RECURSIVE Join(_, _)
Join(parts, c) ==
  IF parts = <<>> THEN <<>>
  ELSE IF Len(parts) = 1 THEN parts[1]
  ELSE parts[1] \o <<c>> \o Join(Tail(parts), c)

\* the characters c with c.isspace(): U+0009 to U+000D, U+001C to U+001F,
\* the space, U+0085 and U+00A0
Whitespace == {
  "\t", "\n", "", "\f", "\r", "", "", "", "", " ", "", " " }

\* str.strip(): whitespace removed at both ends
RECURSIVE LStrip(_)
LStrip(s) == IF s # <<>> /\ s[1] \in Whitespace THEN LStrip(Tail(s)) ELSE s
RECURSIVE RStrip(_)
RStrip(s) ==
  IF s # <<>> /\ s[Len(s)] \in Whitespace THEN RStrip(SubSeq(s, 1, Len(s) - 1)) ELSE s
strip(s) == RStrip(LStrip(s))

\* the characters in the order of their code points, U+0001 to U+00FF
\* (without the grave accent U+0060, which a string of the module cannot hold)
CodePoints ==
  <<
     "", "", "", "", "", "", "", "", "\t", "\n", "", "\f", "\r", "",
     "", "", "", "", "", "", "", "", "", "", "", "", "", "",
     "", "", "", " ", "!", "\"", "#", "$", "%", "&", "'", "(", ")", "*",
     "+", ",", "-", ".", "/", "0", "1", "2", "3", "4", "5", "6", "7", "8",
     "9", ":", ";", "<", "=", ">", "?", "@", "A", "B", "C", "D", "E", "F",
     "G", "H", "I", "J", "K", "L", "M", "N", "O", "P", "Q", "R", "S", "T",
     "U", "V", "W", "X", "Y", "Z", "[", "\\", "]", "^", "_", "a", "b",
     "c", "d", "e", "f", "g", "h", "i", "j", "k", "l", "m", "n", "o", "p",
     "q", "r", "s", "t", "u", "v", "w", "x", "y", "z", "{", "|", "}", "~",
     "", "", "", "", "", "", "", "", "", "", "", "", "", "",
     "", "", "", "", "", "", "", "", "", "", "", "", "", "",
     "", "", "", "", "", " ", "¡", "¢", "£", "¤", "¥", "¦", "§", "¨",
     "©", "ª", "«", "¬", "­", "®", "¯", "°", "±", "²", "³", "´", "µ", "¶",
     "·", "¸", "¹", "º", "»", "¼", "½", "¾", "¿", "À", "Á", "Â", "Ã", "Ä",
     "Å", "Æ", "Ç", "È", "É", "Ê", "Ë", "Ì", "Í", "Î", "Ï", "Ð", "Ñ", "Ò",
     "Ó", "Ô", "Õ", "Ö", "×", "Ø", "Ù", "Ú", "Û", "Ü", "Ý", "Þ", "ß", "à",
     "á", "â", "ã", "ä", "å", "æ", "ç", "è", "é", "ê", "ë", "ì", "í", "î",
     "ï", "ð", "ñ", "ò", "ó", "ô", "õ", "ö", "÷", "ø", "ù", "ú", "û", "ü",
     "ý", "þ", "ÿ" >>
ord(c) == CHOOSE i \in 1..Len(CodePoints) : CodePoints[i] = c

\* a < b on str: the first place where they differ decides, a prefix is less
RECURSIVE Less(_, _)
Less(a, b) ==
  IF a = <<>> THEN b # <<>>
  ELSE IF b = <<>> THEN FALSE
  ELSE IF a[1] = b[1] THEN Less(Tail(a), Tail(b))
  ELSE ord(a[1]) < ord(b[1])

\* sorted(S) for a set of strings
RECURSIVE sorted(_)
sorted(S) ==
  IF S = {} THEN <<>>
  ELSE LET m == CHOOSE x \in S : \A y \in S \ {x} : Less(x, y)
       IN <<m>> \o sorted(S \ {m})

\* ------------------------------------------------------------ urllib.parse

SchemeChars == Letters \cup Digits \cup {"+", "-", "."}

\* uses_relative, uses_netloc and uses_params of urllib.parse ('' is the
\* missing scheme)
uses_relative ==
  { <<>>, <<"f","t","p">>, <<"h","t","t","p">>,
    <<"g","o","p","h","e","r">>, <<"n","n","t","p">>,
    <<"i","m","a","p">>, <<"w","a","i","s">>, <<"f","i","l","e">>,
    <<"h","t","t","p","s">>, <<"s","h","t","t","p">>, <<"m","m","s">>,
    <<"p","r","o","s","p","e","r","o">>, <<"r","t","s","p">>,
    <<"r","t","s","p","s">>, <<"r","t","s","p","u">>,
    <<"s","f","t","p">>, <<"s","v","n">>,
    <<"s","v","n","+","s","s","h">>, <<"w","s">>, <<"w","s","s">> }
uses_netloc ==
  { <<>>, <<"f","t","p">>, <<"h","t","t","p">>,
    <<"g","o","p","h","e","r">>, <<"n","n","t","p">>,
    <<"t","e","l","n","e","t">>, <<"i","m","a","p">>,
    <<"w","a","i","s">>, <<"f","i","l","e">>, <<"m","m","s">>,
    <<"h","t","t","p","s">>, <<"s","h","t","t","p">>,
    <<"s","n","e","w","s">>, <<"p","r","o","s","p","e","r","o">>,
    <<"r","t","s","p">>, <<"r","t","s","p","s">>,
    <<"r","t","s","p","u">>, <<"r","s","y","n","c">>, <<"s","v","n">>,
    <<"s","v","n","+","s","s","h">>, <<"s","f","t","p">>,
    <<"n","f","s">>, <<"g","i","t">>, <<"g","i","t","+","s","s","h">>,
    <<"w","s">>, <<"w","s","s">> }
uses_params ==
  { <<>>, <<"f","t","p">>, <<"h","d","l">>,
    <<"p","r","o","s","p","e","r","o">>, <<"h","t","t","p">>,
    <<"i","m","a","p">>, <<"h","t","t","p","s">>,
    <<"s","h","t","t","p">>, <<"r","t","s","p">>,
    <<"r","t","s","p","s">>, <<"r","t","s","p","u">>, <<"s","i","p">>,
    <<"s","i","p","s">>, <<"m","m","s">>, <<"s","f","t","p">>,
    <<"t","e","l">> }

\* _WHATWG_C0_CONTROL_OR_SPACE (U+0001 to U+0020) and
\* _UNSAFE_URL_BYTES_TO_REMOVE
C0ControlOrSpace == {
  "", "", "", "", "", "", "", "", "\t", "\n", "", "\f", "\r", "",
  "", "", "", "", "", "", "", "", "", "", "", "", "", "",
  "", "", "", " " }
UnsafeUrlBytes == {"\t", "\r", "\n"}

\* url.lstrip(_WHATWG_C0_CONTROL_OR_SPACE)
RECURSIVE lstrip_c0(_)
lstrip_c0(s) == IF s # <<>> /\ s[1] \in C0ControlOrSpace THEN lstrip_c0(Tail(s)) ELSE s
RECURSIVE rstrip_c0(_)
rstrip_c0(s) ==
  IF s # <<>> /\ s[Len(s)] \in C0ControlOrSpace
  THEN rstrip_c0(SubSeq(s, 1, Len(s) - 1)) ELSE s

\* for b in _UNSAFE_URL_BYTES_TO_REMOVE: url = url.replace(b, "")
IsSafeUrlByte(c) == c \notin UnsafeUrlBytes
remove_unsafe(s) == SelectSeq(s, IsSafeUrlByte)

\* the place of the ':' ending a scheme, 0 when the URL has no scheme
SchemeEnd(url) ==
  LET i == Find(url, ":")
  IN IF i > 1 /\ url[1] \in Letters /\ \A k \in 1..(i - 1) : url[k] \in SchemeChars
     THEN i ELSE 0

\* _splitnetloc(url, 2): the place where the authority ends
NetlocEnd(url) ==
  LET ds == {i \in 3..Len(url) : url[i] \in {"/", "?", "#"}}
  IN IF ds = {} THEN Len(url) + 1 ELSE CHOOSE i \in ds : \A j \in ds : i <= j

\* str.rfind(c) + 1: the place of the last c, 0 when there is none
RFind(s, c) ==
  IF \E i \in 1..Len(s) : s[i] = c
  THEN CHOOSE i \in 1..Len(s) : s[i] = c /\ \A j \in (i + 1)..Len(s) : s[j] # c
  ELSE 0

\* _splitparams: the place of the ';' that starts the parameters of the
\* last path segment, 0 when it has none
ParamsAt(path) ==
  LET r == RFind(path, "/")
      k == Find(Drop(path, IF r = 0 THEN 0 ELSE r - 1), ";")
  IN IF k = 0 THEN 0 ELSE (IF r = 0 THEN 0 ELSE r - 1) + k

(***************************************************************************)
(* urlparse(url, scheme), written as the chain of its steps (each step     *)
(* hands what it computed to the next one): the URL is cleaned, the scheme *)
(* is split off, then the authority after '//', the fragment after '#',    *)
(* the query after '?' and the parameters after ';'.                       *)
(***************************************************************************)
ParseResult(scheme, netloc, path, p, query, fragment) ==
  [scheme |-> scheme, netloc |-> netloc,
   path |-> IF p > 0 THEN SubSeq(path, 1, p - 1) ELSE path,
   params |-> IF p > 0 THEN Drop(path, p) ELSE <<>>,
   query |-> query, fragment |-> fragment]

split_params(scheme, netloc, path, query, fragment) ==
  ParseResult(scheme, netloc, path,
              IF scheme \in uses_params THEN ParamsAt(path) ELSE 0,
              query, fragment)

split_query_at(scheme, netloc, rest, q, fragment) ==
  IF q > 0
  THEN split_params(scheme, netloc, SubSeq(rest, 1, q - 1), Drop(rest, q), fragment)
  ELSE split_params(scheme, netloc, rest, <<>>, fragment)

split_query(scheme, netloc, rest, fragment) ==
  split_query_at(scheme, netloc, rest, Find(rest, "?"), fragment)

split_fragment_at(scheme, netloc, rest, f) ==
  IF f > 0
  THEN split_query(scheme, netloc, SubSeq(rest, 1, f - 1), Drop(rest, f))
  ELSE split_query(scheme, netloc, rest, <<>>)

split_fragment(scheme, netloc, rest) ==
  split_fragment_at(scheme, netloc, rest, Find(rest, "#"))

split_netloc_at(scheme, url, e) ==
  split_fragment(scheme, SubSeq(url, 3, e - 1), Drop(url, e - 1))

split_netloc(scheme, url) ==
  IF Take(url, 2) = <<"/", "/">>
  THEN split_netloc_at(scheme, url, NetlocEnd(url))
  ELSE split_fragment(scheme, <<>>, url)

split_scheme(url, scheme, i) ==
  IF i > 0 THEN split_netloc(Lower(SubSeq(url, 1, i - 1)), Drop(url, i))
  ELSE split_netloc(scheme, url)

urlsplit_clean(url, scheme) == split_scheme(url, scheme, SchemeEnd(url))

urlparse(url, scheme) ==
  urlsplit_clean(remove_unsafe(lstrip_c0(url)),
                 remove_unsafe(rstrip_c0(lstrip_c0(scheme))))

\* urlunparse((scheme, netloc, path, params, query, fragment))
with_fragment(url, fragment) ==
  IF fragment # <<>> THEN url \o <<"#">> \o fragment ELSE url

with_query(url, query) ==
  IF query # <<>> THEN url \o <<"?">> \o query ELSE url

with_scheme(scheme, url) ==
  IF scheme # <<>> THEN scheme \o <<":">> \o url ELSE url

with_netloc(scheme, netloc, path) ==
  IF netloc # <<>> \/ (scheme # <<>> /\ scheme \in uses_netloc
                       /\ Take(path, 2) # <<"/", "/">>)
  THEN <<"/", "/">> \o netloc
       \o (IF path # <<>> /\ path[1] # "/" THEN <<"/">> \o path ELSE path)
  ELSE path

with_params(path, params) ==
  IF params # <<>> THEN path \o <<";">> \o params ELSE path

urlunparse(scheme, netloc, path, params, query, fragment) ==
  with_fragment(
    with_query(with_scheme(scheme, with_netloc(scheme, netloc, with_params(path, params))),
               query),
    fragment)

\* the loop of urljoin over the path segments: '..' pops, '.' is dropped
RECURSIVE ResolveSegments(_, _)
ResolveSegments(segments, resolved) ==
  IF segments = <<>> THEN resolved
  ELSE IF Head(segments) = <<".", ".">>
       THEN ResolveSegments(Tail(segments),
              IF resolved = <<>> THEN resolved
              ELSE SubSeq(resolved, 1, Len(resolved) - 1))
  ELSE IF Head(segments) = <<".">> THEN ResolveSegments(Tail(segments), resolved)
  ELSE ResolveSegments(Tail(segments), Append(resolved, Head(segments)))

\* segments[1:-1] = filter(None, segments[1:-1])
NonEmpty(seg) == seg # <<>>
DropEmptyInner(segments) ==
  IF Len(segments) <= 2 THEN segments
  ELSE <<segments[1]>> \o SelectSeq(SubSeq(segments, 2, Len(segments) - 1), NonEmpty)
       \o <<segments[Len(segments)]>>

\* base_parts: the base path's segments without its last, non-directory one
drop_file(parts) ==
  IF parts[Len(parts)] # <<>> THEN SubSeq(parts, 1, Len(parts) - 1) ELSE parts

\* the segments to resolve: the path's own when it is rooted
join_segments(bpath, path) ==
  IF Take(path, 1) = <<"/">> THEN Split(path, "/")
  ELSE DropEmptyInner(drop_file(Split(bpath, "/")) \o Split(path, "/"))

\* a final '.' or '..' leaves a trailing '/'
close_dir(last, resolved) ==
  IF last \in {<<".">>, <<".", ".">>} THEN Append(resolved, <<>>) ELSE resolved

or_root(joined) == IF joined = <<>> THEN <<"/">> ELSE joined

resolve_path(segments) ==
  or_root(Join(close_dir(segments[Len(segments)], ResolveSegments(segments, <<>>)), "/"))

\* urljoin once both URLs are parsed (b: the base, u: the reference)
urljoin_parsed(url, b, u) ==
  IF u.scheme # b.scheme \/ u.scheme \notin uses_relative THEN url
  ELSE IF u.scheme \in uses_netloc /\ u.netloc # <<>>
  THEN urlunparse(u.scheme, u.netloc, u.path, u.params, u.query, u.fragment)
  ELSE IF u.path = <<>> /\ u.params = <<>>
  THEN urlunparse(u.scheme,
                  IF u.scheme \in uses_netloc THEN b.netloc ELSE u.netloc,
                  b.path, b.params,
                  IF u.query = <<>> THEN b.query ELSE u.query,
                  u.fragment)
  ELSE urlunparse(u.scheme,
                  IF u.scheme \in uses_netloc THEN b.netloc ELSE u.netloc,
                  resolve_path(join_segments(b.path, u.path)),
                  u.params, u.query, u.fragment)

urljoin_base(url, b) == urljoin_parsed(url, b, urlparse(url, b.scheme))

urljoin(base, url) ==
  IF base = <<>> THEN url
  ELSE IF url = <<>> THEN base
  ELSE urljoin_base(url, urlparse(base, <<>>))

\* urlparse(url).netloc
netloc_of(url) == urlparse(url, <<>>).netloc

\* ---------------------------------------------------- regular expressions

SlugChars == Letters \cup Digits \cup {"-"}

\* $ matches at the end of the string and before a newline that ends it
BeforeEnd(t) == IF t # <<>> /\ t[Len(t)] = "\n" THEN SubSeq(t, 1, Len(t) - 1) ELSE t

\* /? of the patterns: a final '/' is taken when there is one
BeforeSlash(t) == IF t # <<>> /\ t[Len(t)] = "/" THEN SubSeq(t, 1, Len(t) - 1) ELSE t

IsSlug(u) == u # <<>> /\ \A k \in 1..Len(u) : u[k] \in SlugChars

\* t matches [a-zA-Z0-9\-]+/?$ from its first character
SlugTail(t) == IsSlug(BeforeSlash(t)) \/ IsSlug(BeforeSlash(BeforeEnd(t)))

PostWords == {<<"p","o","s","t">>, <<"b","l","o","g">>,
              <<"a","r","t","i","c","l","e">>, <<"e","n","t","r","y">>}

\* re.search(r'/(post|blog|article|entry)/[a-zA-Z0-9\-]+/?$', s)
PostRe(s) ==
  \E i \in 1..Len(s) : \E w \in PostWords :
    /\ startswith(Drop(s, i - 1), <<"/">> \o w \o <<"/">>)
    /\ SlugTail(Drop(s, i + Len(w) + 1))

\* re.search(r'/\d{4}/\d{2}/\d{2}/[a-zA-Z0-9\-]+/?$', s)
DateRe(s) ==
  \E i \in 1..Len(s) :
    /\ Len(s) >= i + 11
    /\ s[i] = "/" /\ \A k \in 1..4 : s[i + k] \in Digits
    /\ s[i + 5] = "/" /\ \A k \in 6..7 : s[i + k] \in Digits
    /\ s[i + 8] = "/" /\ \A k \in 9..10 : s[i + k] \in Digits
    /\ s[i + 11] = "/"
    /\ SlugTail(Drop(s, i + 11))

\* re.search(r'/blog/[a-zA-Z0-9\-]+/?$', s)
BlogRe(s) ==
  \E i \in 1..Len(s) :
    /\ startswith(Drop(s, i - 1), <<"/","b","l","o","g","/">>)
    /\ SlugTail(Drop(s, i + 5))

\* ------------------------------------------------- parsed documents (soup)

(***************************************************************************)
(* BeautifulSoup(html_content, 'html.parser') is modelled by its result: a *)
(* document is the sequence of its top-level nodes in document order, and  *)
(* a node holds its tag, its attributes (tag.attrs, a dict: here the       *)
(* function from the names of its attributes to their values, where the    *)
(* value of a list attribute such as class is the list of its words and    *)
(* any other value is a string), its own text and its child elements       *)
(* (kids, which have no children).                                         *)
(***************************************************************************)
NoAttrs == <<>>

Leaf(tag, attrs, text) == [tag |-> tag, attrs |-> attrs, text |-> text]

Node(tag, attrs, text, kids) ==
  [tag |-> tag, attrs |-> attrs, text |-> text, kids |-> kids]

\* the attribute names the code and its selectors mention
HREF == <<"h","r","e","f">>
CLASS == <<"c","l","a","s","s">>
REL == <<"r","e","l">>
CONTENT == <<"c","o","n","t","e","n","t">>
NAME == <<"n","a","m","e">>
PROPERTY == <<"p","r","o","p","e","r","t","y">>

\* name in tag.attrs
has_attr(e, name) == name \in DOMAIN e.attrs

\* tag.get(name) and tag.get(name, ''): None and '' are both the empty value
get(e, name) == IF has_attr(e, name) THEN e.attrs[name] ELSE <<>>

\* the classes of an element
classes(e) == Range(get(e, CLASS))

\* HTMLTreeBuilder.DEFAULT_CDATA_LIST_ATTRIBUTES: the attributes whose value
\* the parser splits into a list of words
is_list_attr(tag, name) ==
  \/ name \in {CLASS, <<"a","c","c","e","s","s","k","e","y">>,
               <<"d","r","o","p","z","o","n","e">>}
  \/ tag \in {"a", "link"} /\ name \in {REL, <<"r","e","v">>}
  \/ tag \in {"td", "th"} /\ name = <<"h","e","a","d","e","r","s">>
  \/ tag = "form" /\ name = <<"a","c","c","e","p","t","-","c","h","a","r","s","e","t">>
  \/ tag = "object" /\ name = <<"a","r","c","h","i","v","e">>
  \/ tag = "area" /\ name = REL
  \/ tag = "icon" /\ name = <<"s","i","z","e","s">>
  \/ tag = "iframe" /\ name = <<"s","a","n","d","b","o","x">>
  \/ tag = "output" /\ name = <<"f","o","r">>

\* the string an attribute value stands for: ' '.join(value) for a list
attr_text(e, name) ==
  IF is_list_attr(e.tag, name) THEN Join(e.attrs[name], " ") ELSE e.attrs[name]

\* an element as a selector sees it: the node or kid with its parent's tag
\* and classes (ptag = "" at top level)
Elem(n, ptag, pcls, kids) ==
  [tag |-> n.tag, attrs |-> n.attrs, text |-> n.text,
   ptag |-> ptag, pcls |-> pcls, kids |-> kids]

\* every element of the document, in document order
RECURSIVE Elements(_)
Elements(doc) ==
  IF doc = <<>> THEN <<>>
  ELSE LET n == Head(doc)
       IN <<Elem(n, "", {}, n.kids)>>
          \o [i \in 1..Len(n.kids) |-> Elem(n.kids[i], n.tag, classes(n), <<>>)]
          \o Elements(Tail(doc))

\* a CSS selector "ancestor element": atag/acls describe the ancestor
\* ("" and <<>> for none), tag/cls the element itself, attr the
\* [name='value'] test
NoAttr == << <<>>, <<>> >>
Sel(atag, acls, tag, cls, attr) ==
  [atag |-> atag, acls |-> acls, tag |-> tag, cls |-> cls, attr |-> attr]

Matches(sel, e) ==
  /\ sel.tag = "" \/ e.tag = sel.tag
  /\ sel.cls = <<>> \/ sel.cls \in classes(e)
  /\ sel.attr = NoAttr
     \/ /\ has_attr(e, sel.attr[1])
        /\ attr_text(e, sel.attr[1]) = sel.attr[2]
  /\ sel.atag = "" \/ e.ptag = sel.atag
  /\ sel.acls = <<>> \/ sel.acls \in e.pcls

\* soup.select(selector): the matching elements in document order
select(doc, sel) == SelectSeq(Elements(doc), LAMBDA e : Matches(sel, e))

\* soup.select_one(selector) finds something
select_one_found(doc, sel) == select(doc, sel) # <<>>
select_one(doc, sel) == Head(select(doc, sel))

\* ------------------------------------------------------- link classifier

BlogSelectors ==
  << Sel("article", <<>>, "a", <<>>, NoAttr),      \* "article a"
     Sel("", <<"p","o","s","t">>, "a", <<>>, NoAttr),         \* ".post a"
     Sel("", <<"b","l","o","g","-","p","o","s","t">>, "a", <<>>, NoAttr),    \* ".blog-post a"
     Sel("", <<"e","n","t","r","y">>, "a", <<>>, NoAttr),        \* ".entry a"
     Sel("", <<"p","o","s","t","-","t","i","t","l","e">>, "a", <<>>, NoAttr),   \* ".post-title a"
     Sel("", <<"b","l","o","g","-","e","n","t","r","y">>, "a", <<>>, NoAttr),   \* ".blog-entry a"
     Sel("", <<>>, "", <<"p","o","s","t","-","l","i","n","k">>, NoAttr),     \* ".post-link"
     Sel("", <<"b","l","o","g","-","t","i","t","l","e">>, "a", <<>>, NoAttr),   \* ".blog-title a"
     Sel("", <<>>, "a", <<"p","o","s","t","-","l","i","n","k">>, NoAttr),    \* "a.post-link"
     Sel("", <<>>, "a", <<"r","e","a","d","-","m","o","r","e">>, NoAttr),    \* "a.read-more"
     Sel("", <<>>, "a", <<"m","o","r","e","-","l","i","n","k">>, NoAttr),    \* "a.more-link"
     Sel("h2", <<>>, "a", <<>>, NoAttr),           \* "h2 a"
     Sel("h1", <<>>, "a", <<>>, NoAttr),           \* "h1 a"
     Sel("h3", <<>>, "a", <<>>, NoAttr) >>         \* "h3 a"

PaginationSelectors ==
  << Sel("", <<"p","a","g","i","n","a","t","i","o","n">>, "a", <<>>, NoAttr),   \* ".pagination a"
     Sel("", <<"n","a","v","-","l","i","n","k","s">>, "a", <<>>, NoAttr),    \* ".nav-links a"
     Sel("", <<>>, "", <<"p","a","g","e","-","n","u","m","b","e","r","s">>, NoAttr),  \* ".page-numbers"
     Sel("", <<>>, "a", <<"p","a","g","e","-","l","i","n","k">>, NoAttr),    \* "a.page-link"
     Sel("", <<"p","a","g","e","r">>, "a", <<>>, NoAttr),        \* ".pager a"
     Sel("", <<"p","a","g","e","s">>, "a", <<>>, NoAttr),        \* ".pages a"
     Sel("", <<>>, "a", <<>>, <<REL, <<"n","e","x","t">>>>),  \* "a[rel='next']"
     Sel("", <<>>, "a", <<"n","e","x","t">>, NoAttr) >>       \* "a.next"

HASH == <<"#">>
JAVASCRIPT == <<"j","a","v","a","s","c","r","i","p","t",":">>

\* href and not href.startswith('#') and not href.startswith('javascript:')
BlogHrefOk(e) ==
  /\ get(e, HREF) # <<>>
  /\ ~startswith(get(e, HREF), HASH)
  /\ ~startswith(get(e, HREF), JAVASCRIPT)

\* href and not href.startswith('#')
PaginationHrefOk(e) ==
  /\ get(e, HREF) # <<>>
  /\ ~startswith(get(e, HREF), HASH)

\* the selector phase of find_blog_links: the URLs appended to links
SelectorLinks(doc, base_url, domain) ==
  { urljoin(base_url, get(e, HREF)) :
      e \in { f \in Range(Elements(doc)) :
                /\ \E k \in 1..Len(BlogSelectors) : Matches(BlogSelectors[k], f)
                /\ BlogHrefOk(f)
                /\ netloc_of(urljoin(base_url, get(f, HREF))) = domain } }

\* the fallback phase: soup.find_all('a', href=True) against the patterns
FallbackLinks(doc, base_url, domain) ==
  { urljoin(base_url, get(e, HREF)) :
      e \in { f \in Range(Elements(doc)) :
                /\ f.tag = "a" /\ has_attr(f, HREF)
                /\ netloc_of(urljoin(base_url, get(f, HREF))) = domain
                /\ LET u == urljoin(base_url, get(f, HREF))
                   IN PostRe(u) \/ DateRe(u) \/ BlogRe(u) } }

\* find_blog_links: set(links); the returned list is some ordering of it
find_blog_links(doc, base_url, domain) ==
  LET links == SelectorLinks(doc, base_url, domain)
  IN IF links = {} THEN FallbackLinks(doc, base_url, domain) ELSE links

\* mutant: every anchor is taken, whatever selector it matches
find_pagination_links_any_anchor(doc, base_url, domain) ==
  { urljoin(base_url, get(e, HREF)) :
      e \in { f \in Range(Elements(doc)) :
                /\ f.tag = "a"
                /\ PaginationHrefOk(f)
                /\ netloc_of(urljoin(base_url, get(f, HREF))) = domain } }

\* find_pagination_links: set(pagination_links)
find_pagination_links(doc, base_url, domain) ==
  { urljoin(base_url, get(e, HREF)) :
      e \in { f \in Range(Elements(doc)) :
                /\ \E k \in 1..Len(PaginationSelectors) :
                     Matches(PaginationSelectors[k], f)
                /\ PaginationHrefOk(f)
                /\ netloc_of(urljoin(base_url, get(f, HREF))) = domain } }

\* list(set(...)): every ordering of the set is a possible result
RECURSIVE ListsOf(_)
ListsOf(S) ==
  IF S = {} THEN {<<>>}
  ELSE UNION { { <<u>> \o l : l \in ListsOf(S \ {u}) } : u \in S }

\* ----------------------------------------------------- content extractor

RECURSIVE Concat(_)
Concat(ss) == IF ss = <<>> THEN <<>> ELSE Head(ss) \o Concat(Tail(ss))

\* element.get_text(): the element's text and its children's; the strings
\* of script and style children are not text of the parent
get_text(e) ==
  e.text \o Concat([i \in 1..Len(e.kids) |->
                      IF e.kids[i].tag \in {"script", "style"} THEN <<>>
                      ELSE e.kids[i].text])

\* for element in content_elem.select("script, style"): element.decompose()
decompose_scripts(e) ==
  [e EXCEPT !.kids = SelectSeq(e.kids, LAMBDA k : k.tag \notin {"script", "style"})]

(***************************************************************************)
(* str(content_elem): the markup of the element, as the sequence of its    *)
(* pieces (a tag name is one piece, everything else is a character).       *)
(* Every attribute of a tag is written, in the order of                    *)
(* sorted(tag.attrs.items()); '&', '<' and '>' are written as entities     *)
(* except in a script or style; a void element without contents is closed  *)
(* in its own tag.                                                         *)
(***************************************************************************)
\* HTMLTreeBuilder.empty_element_tags
VoidTags ==
  { "area", "base", "br", "col", "embed", "hr", "img", "input", "keygen",
    "link", "menuitem", "meta", "param", "source", "track", "wbr",
    "basefont", "bgsound", "command", "frame", "image", "isindex", "nextid",
    "spacer" }

\* EntitySubstitution.substitute_xml
escape_char(c) ==
  IF c = "&" THEN <<"&","a","m","p",";">>
  ELSE IF c = "<" THEN <<"&","l","t",";">>
  ELSE IF c = ">" THEN <<"&","g","t",";">>
  ELSE <<c>>
substitute_xml(s) == Concat([i \in 1..Len(s) |-> escape_char(s[i])])

\* EntitySubstitution.quoted_attribute_value: double quotes, single quotes
\* around a value with a double quote, &quot; when it has both
quot_char(c) == IF c = "\"" THEN <<"&","q","u","o","t",";">> ELSE <<c>>
quoted_attribute_value(v) ==
  IF "\"" \in Range(v) /\ "'" \in Range(v)
  THEN <<"\"">> \o Concat([i \in 1..Len(v) |-> quot_char(v[i])]) \o <<"\"">>
  ELSE IF "\"" \in Range(v) THEN <<"'">> \o v \o <<"'">>
  ELSE <<"\"">> \o v \o <<"\"">>

\* ' name="value"' for one attribute of the element
attribute_markup(e, name) ==
  <<" ">> \o name \o <<"=">>
  \o quoted_attribute_value(substitute_xml(attr_text(e, name)))

\* the attributes in the order of their names
attributes_in(e, names) ==
  Concat([k \in 1..Len(names) |-> attribute_markup(e, names[k])])
attribute_string(e) == attributes_in(e, sorted(DOMAIN e.attrs))

\* the strings of a script or style are written as they are
text_markup(e) ==
  IF e.tag \in {"script", "style"} THEN e.text ELSE substitute_xml(e.text)

\* Tag.decode: '<name attrs/>' for a void element without contents, else
\* the opening tag, the contents and the closing tag
tag_markup(e, is_empty, contents) ==
  IF e.tag \in VoidTags /\ is_empty
  THEN <<"<", e.tag>> \o attribute_string(e) \o <<"/", ">">>
  ELSE <<"<", e.tag>> \o attribute_string(e) \o <<">">> \o contents
       \o <<"<", "/", e.tag, ">">>

leaf_markup(k) == tag_markup(k, k.text = <<>>, text_markup(k))

raw_html_of(e) ==
  tag_markup(e, e.text = <<>> /\ e.kids = <<>>,
             text_markup(e) \o Concat([i \in 1..Len(e.kids) |-> leaf_markup(e.kids[i])]))

TitleSelectors ==
  << Sel("", <<>>, "h1", <<>>, NoAttr),             \* "h1"
     Sel("", <<>>, "h1", <<"p","o","s","t","-","t","i","t","l","e">>, NoAttr),   \* "h1.post-title"
     Sel("", <<>>, "h1", <<"e","n","t","r","y","-","t","i","t","l","e">>, NoAttr),  \* "h1.entry-title"
     Sel("", <<>>, "", <<"p","o","s","t","-","t","i","t","l","e">>, NoAttr),     \* ".post-title"
     Sel("", <<>>, "", <<"e","n","t","r","y","-","t","i","t","l","e">>, NoAttr),    \* ".entry-title"
     Sel("article", <<>>, "h1", <<>>, NoAttr) >>    \* "article h1"

MetaPublished ==
  Sel("", <<>>, "meta", <<>>,
      <<PROPERTY, <<"a","r","t","i","c","l","e",":",
                    "p","u","b","l","i","s","h","e","d","_","t","i","m","e">>>>)
MetaAuthor == Sel("", <<>>, "meta", <<>>, <<NAME, <<"a","u","t","h","o","r">>>>)

DateSelectors ==
  << Sel("", <<>>, "", <<"p","o","s","t","-","d","a","t","e">>, NoAttr),      \* ".post-date"
     Sel("", <<>>, "", <<"e","n","t","r","y","-","d","a","t","e">>, NoAttr),     \* ".entry-date"
     Sel("", <<>>, "", <<"p","u","b","l","i","s","h","e","d">>, NoAttr),      \* ".published"
     Sel("", <<>>, "time", <<>>, NoAttr),           \* "time"
     Sel("", <<>>, "", <<"d","a","t","e">>, NoAttr),           \* ".date"
     MetaPublished,                             \* "meta[property='article:published_time']"
     Sel("", <<>>, "span", <<"d","a","t","e">>, NoAttr),       \* "span.date"
     Sel("", <<"p","o","s","t","-","m","e","t","a">>, "time", <<>>, NoAttr) >> \* ".post-meta time"

AuthorSelectors ==
  << Sel("", <<>>, "", <<"a","u","t","h","o","r">>, NoAttr),         \* ".author"
     Sel("", <<>>, "", <<"e","n","t","r","y","-","a","u","t","h","o","r">>, NoAttr),   \* ".entry-author"
     Sel("", <<>>, "a", <<"a","u","t","h","o","r">>, NoAttr),        \* "a.author"
     Sel("", <<>>, "", <<"p","o","s","t","-","a","u","t","h","o","r">>, NoAttr),    \* ".post-author"
     MetaAuthor,                                \* "meta[name='author']"
     Sel("", <<>>, "", <<"a","u","t","h","o","r","-","n","a","m","e">>, NoAttr),    \* ".author-name"
     Sel("", <<>>, "", <<"b","y","l","i","n","e">>, NoAttr) >>       \* ".byline"

CategorySelectors ==
  << Sel("", <<>>, "", <<"c","a","t","e","g","o","r","y">>, NoAttr),       \* ".category"
     Sel("", <<>>, "", <<"c","a","t","e","g","o","r","i","e","s">>, NoAttr),     \* ".categories"
     Sel("", <<>>, "", <<"t","a","g","s">>, NoAttr),           \* ".tags"
     Sel("", <<>>, "", <<"p","o","s","t","-","t","a","g","s">>, NoAttr),      \* ".post-tags"
     Sel("", <<>>, "", <<"e","n","t","r","y","-","t","a","g","s">>, NoAttr),     \* ".entry-tags"
     Sel("", <<>>, "", <<"p","o","s","t","-","c","a","t","e","g","o","r","i","e","s">>, NoAttr), \* ".post-categories"
     Sel("", <<>>, "a", <<>>, <<REL, <<"c","a","t","e","g","o","r","y">>>>) >> \* "a[rel='category']"

ContentSelectors ==
  << Sel("", <<>>, "article", <<>>, NoAttr),        \* "article"
     Sel("", <<>>, "", <<"p","o","s","t","-","c","o","n","t","e","n","t">>, NoAttr),   \* ".post-content"
     Sel("", <<>>, "", <<"e","n","t","r","y","-","c","o","n","t","e","n","t">>, NoAttr),  \* ".entry-content"
     Sel("", <<>>, "", <<"c","o","n","t","e","n","t">>, NoAttr),        \* ".content"
     Sel("", <<>>, "", <<"p","o","s","t">>, NoAttr),           \* ".post"
     Sel("", <<>>, "", <<"b","l","o","g","-","p","o","s","t">>, NoAttr),      \* ".blog-post"
     Sel("", <<>>, "", <<"a","r","t","i","c","l","e","-","c","o","n","t","e","n","t">>, NoAttr) >> \* ".article-content"

\* for selector in selectors: ... if elem: ...; break
\* the place of the first selector that matches an element, 0 for none
FirstMatch(doc, sels) ==
  LET hits == {k \in 1..Len(sels) : select_one_found(doc, sels[k])}
  IN IF hits = {} THEN 0 ELSE CHOOSE k \in hits : \A j \in hits : k <= j

\* mutant: a match with an empty text does not stop the probing
extract_title_nonempty(doc) ==
  LET good == {k \in 1..Len(TitleSelectors) :
                 /\ select_one_found(doc, TitleSelectors[k])
                 /\ strip(get_text(select_one(doc, TitleSelectors[k]))) # <<>>}
  IN IF good = {} THEN <<>>
     ELSE strip(get_text(select_one(doc,
            TitleSelectors[CHOOSE k \in good : \A j \in good : k <= j])))

extract_title(doc) ==
  LET k == FirstMatch(doc, TitleSelectors)
  IN IF k = 0 THEN <<>> ELSE strip(get_text(select_one(doc, TitleSelectors[k])))

\* a field read from the content attribute when the meta selector matched
extract_meta_field(doc, sels, meta) ==
  LET k == FirstMatch(doc, sels)
  IN IF k = 0 THEN <<>>
     ELSE IF sels[k] = meta THEN get(select_one(doc, sels[k]), CONTENT)
     ELSE strip(get_text(select_one(doc, sels[k])))

extract_date(doc) == extract_meta_field(doc, DateSelectors, MetaPublished)
extract_author(doc) == extract_meta_field(doc, AuthorSelectors, MetaAuthor)

extract_categories(doc) ==
  LET k == FirstMatch(doc, CategorySelectors)
  IN IF k = 0 THEN <<>>
     ELSE LET cats == select(doc, CategorySelectors[k])
          IN [i \in 1..Len(cats) |-> strip(get_text(cats[i]))]

extract_content(doc) ==
  LET k == FirstMatch(doc, ContentSelectors)
  IN IF k = 0 THEN [content |-> <<>>, raw_html |-> <<>>]
     ELSE LET cleaned == decompose_scripts(select_one(doc, ContentSelectors[k]))
          IN [content |-> strip(get_text(cleaned)), raw_html |-> raw_html_of(cleaned)]

extract_blog_content(doc, url) ==
  [url |-> url,
   title |-> extract_title(doc),
   date |-> extract_date(doc),
   author |-> extract_author(doc),
   content |-> extract_content(doc).content,
   raw_html |-> extract_content(doc).raw_html,
   categories |-> extract_categories(doc)]

\* ------------------------------------------------------------ persistence

FilenameMax == 50
\* \w on str: [a-zA-Z0-9_] and every other alphanumeric character
Latin1Word == {
  "ª", "²", "³", "µ", "¹", "º", "¼", "½", "¾", "À", "Á", "Â", "Ã", "Ä",
  "Å", "Æ", "Ç", "È", "É", "Ê", "Ë", "Ì", "Í", "Î", "Ï", "Ð", "Ñ", "Ò",
  "Ó", "Ô", "Õ", "Ö", "Ø", "Ù", "Ú", "Û", "Ü", "Ý", "Þ", "ß", "à", "á",
  "â", "ã", "ä", "å", "æ", "ç", "è", "é", "ê", "ë", "ì", "í", "î", "ï",
  "ð", "ñ", "ò", "ó", "ô", "õ", "ö", "ø", "ù", "ú", "û", "ü", "ý", "þ",
  "ÿ" }
WordChars == Letters \cup Digits \cup {"_"} \cup Latin1Word
DotJson == <<".","j","s","o","n">>

\* re.sub(r'[^\w\-]', '_', s)
sub_unsafe(s) == [i \in 1..Len(s) |-> IF s[i] \in WordChars \cup {"-"} THEN s[i] ELSE "_"]

\* the file name save_post writes to (inside output_folder)
post_filename(post_data) ==
  LET parts == Split(post_data.url, "/")
      fromurl == sub_unsafe(parts[Len(parts)])
      filename == IF post_data.title = <<>>
                  THEN (IF fromurl = <<>> THEN <<"p","o","s","t">> ELSE fromurl)
                  ELSE sub_unsafe(post_data.title)
  IN Take(filename, FilenameMax) \o DotJson

\* save_post: the file is (over)written with the record
save_post(fs, post_data) ==
  { f \in fs : f.name # post_filename(post_data) }
  \cup { [name |-> post_filename(post_data), data |-> post_data] }

\* ------------------------------------------------------------ the crawl

(***************************************************************************)
(* The site the crawl runs against.  The seed lists post a and the         *)
(* listing pages 2 and 3; page 2 lists post b and links back to the seed   *)
(* and to itself; page 3 lists post a again (by its absolute URL, in a     *)
(* heading inside a pager block, so that it is a pagination link as well)  *)
(* and links to page 2.  Post a has a title and a body with a script;      *)
(* post b is a body without any element.                                   *)
(***************************************************************************)
SEED == <<"h","t","t","p",":","/","/","d","/","b","l","o","g">>
PAGE2 == <<"h","t","t","p",":","/","/","d","/","b","l","o","g","/","p","a","g","e","/","2">>
PAGE3 == <<"h","t","t","p",":","/","/","d","/","b","l","o","g","/","p","a","g","e","/","3">>
POST_A == <<"h","t","t","p",":","/","/","d","/","b","l","o","g","/","a">>
POST_B == <<"h","t","t","p",":","/","/","d","/","b","l","o","g","/","b">>

Anchor(href) == Leaf("a", HREF :> href, <<>>)
Box(tag, attrs, kids) == Node(tag, attrs, <<>>, kids)
TextLeaf(tag, attrs, text) == Leaf(tag, attrs, text)

SeedDoc ==
  << Box("article", NoAttrs, << Anchor(<<"/","b","l","o","g","/","a">>) >>),
     Box("div", CLASS :> <<<<"p","a","g","i","n","a","t","i","o","n">>>>, << Anchor(<<"/","b","l","o","g","/","p","a","g","e","/","2">>),
                                   Anchor(<<"/","b","l","o","g","/","p","a","g","e","/","3">>) >>) >>
Page2Doc ==
  << Box("article", NoAttrs, << Anchor(<<"/","b","l","o","g","/","b">>) >>),
     Box("div", CLASS :> <<<<"p","a","g","i","n","a","t","i","o","n">>>>, << Anchor(<<"/","b","l","o","g">>),
                                   Anchor(<<"/","b","l","o","g","/","p","a","g","e","/","2">>) >>) >>
Page3Doc ==
  << Box("h2", CLASS :> <<<<"p","a","g","e","r">>>>, << Anchor(POST_A) >>),
     Box("div", CLASS :> <<<<"p","a","g","i","n","a","t","i","o","n">>>>, << Anchor(<<"/","b","l","o","g","/","p","a","g","e","/","2">>) >>) >>
PostADoc ==
  << Node("h1", NoAttrs, <<" ","H","i","!"," ">>, <<>>),
     Box("article", NoAttrs, << TextLeaf("script", NoAttrs, <<"x","=","1">>), TextLeaf("p", NoAttrs, <<"B","o","d","y">>) >>) >>
PostBDoc == <<>>

\* the page a URL serves when the request succeeds with a body
Web(url) ==
  CASE url = SEED -> SeedDoc
    [] url = PAGE2 -> Page2Doc
    [] url = PAGE3 -> Page3Doc
    [] url = POST_A -> PostADoc
    [] OTHER -> PostBDoc

SiteUrls == {SEED, PAGE2, PAGE3, POST_A, POST_B}

\* bounds of the model
MaxPagesBound == 4
MaxPostsBound == 2

(***************************************************************************)
(* fetch_page(url): None on a RequestException ("fail"), else              *)
(* response.text, which is the empty string for an empty body ("empty")    *)
(* and the page otherwise ("ok").                                          *)
(***************************************************************************)
FetchResults == {"fail", "empty", "ok"}
fetch_page(url, result) == [result |-> result, doc |-> IF result = "ok" THEN Web(url) ELSE <<>>]

\* `if html_content:` -- None and '' are both false
Truthy(html) == html.result = "ok"

VARIABLES
  base_url,          \* self.base_url
  scraped_urls,      \* self.scraped_urls
  files,             \* the files of output_folder: {[name, data]}
  pc,                \* where scrape() is: "idle", "paginate", "posts"
  max_posts, max_pages,      \* the arguments of the running call
  blog_links, pagination_links, pages_scraped,   \* locals of scrape()
  idx,               \* the position of the post loop in blog_links
  last,              \* history: the last fetch_page call, its result and, for a
                     \* listing page, the pagination links it gave, as returned
  listing_fetches,   \* history: listing pages fetched in this call (seed included)
  post_fetches,      \* history: post pages fetched in this call
  failed_urls,       \* history: URLs whose fetch failed in this call
  dequeued,          \* history: pagination URLs taken from the queue in this call
  found,             \* history: post links classified from pages of this call
  saves,             \* history: per URL, the records saved over all calls
  in_doc, out_posts, out_pag, out_rec, done   \* the classifier / extractor alone

crawl_vars == <<scraped_urls, files, pc, max_posts, max_pages, blog_links,
                pagination_links, pages_scraped, idx, last, listing_fetches,
                post_fetches, failed_urls, dequeued, found, saves>>
pure_vars == <<in_doc, out_posts, out_pag, out_rec, done>>
vars == <<base_url, crawl_vars, pure_vars>>

\* self.domain = urlparse(base_url).netloc
domain == netloc_of(base_url)

NoFetch == [phase |-> "none", url |-> <<>>, result |-> "none", listed |-> <<>>]

(***************************************************************************)
(* What output_folder may hold when the scraper is constructed             *)
(* (os.makedirs(output_folder, exist_ok=True) keeps what is there): a file *)
(* of another name, and the record an earlier run saved for post a, under  *)
(* the name save_post gives it.                                            *)
(***************************************************************************)
OldRecord ==
  [url |-> POST_A, title |-> <<"H","i","!">>, date |-> <<>>, author |-> <<>>,
   content |-> <<"O","l","d">>, raw_html |-> <<>>, categories |-> <<>>]
ExistingFiles ==
  { [name |-> <<"o","l","d",".","j","s","o","n">>,
     data |-> extract_blog_content(<<>>, <<>>)],
    [name |-> post_filename(OldRecord), data |-> OldRecord] }

\* __init__: nothing scraped, the output folder as it was found
CrawlInit ==
  /\ scraped_urls = {}
  /\ files \in SUBSET ExistingFiles
  /\ pc = "idle"
  /\ max_posts = 0 /\ max_pages = 0
  /\ blog_links = <<>> /\ pagination_links = <<>> /\ pages_scraped = 0
  /\ idx = 0
  /\ last = NoFetch
  /\ listing_fetches = 0 /\ post_fetches = 0
  /\ failed_urls = {} /\ dequeued = {} /\ found = {}
  /\ saves = [u \in SiteUrls |-> 0]

PureIdle ==
  /\ in_doc = <<>> /\ out_posts = {} /\ out_pag = {}
  /\ out_rec = extract_blog_content(<<>>, <<>>) /\ done = {}

Init ==
  /\ base_url = SEED
  /\ CrawlInit
  /\ PureIdle

\* mutant: the check of the seed page is left out
seed_unusable_never(html_content) == FALSE

\* `if not html_content:` on the seed page, line 229
seed_unusable(html_content) == ~Truthy(html_content)

\* scrape(max_posts, max_pages), lines 226-236: the seed page is fetched;
\* without a body the call returns, else the seed's links start the walk
StartScrape ==
  /\ pc = "idle"
  /\ \E r \in FetchResults :
       LET html_content == fetch_page(base_url, r)
       IN /\ last' = [phase |-> "seed", url |-> base_url, result |-> r, listed |-> <<>>]
          /\ listing_fetches' = 1 /\ post_fetches' = 0
          /\ failed_urls' = IF r = "fail" THEN {base_url} ELSE {}
          /\ dequeued' = {}
          /\ idx' = 0
          /\ IF seed_unusable(html_content)
             THEN /\ pc' = "idle"
                  /\ found' = {}
                  /\ blog_links' = <<>> /\ pagination_links' = <<>>
                  /\ pages_scraped' = 0
             ELSE /\ pc' = "paginate"
                  /\ found' = find_blog_links(html_content.doc, base_url, domain)
                  /\ blog_links' \in ListsOf(find_blog_links(html_content.doc, base_url, domain))
                  /\ pagination_links' \in
                       ListsOf(find_pagination_links(html_content.doc, base_url, domain))
                  /\ pages_scraped' = 1
  /\ \E mp \in 0..MaxPostsBound, mg \in 0..MaxPagesBound :
       max_posts' = mp /\ max_pages' = mg
  /\ UNCHANGED <<base_url, scraped_urls, files, saves, pure_vars>>

\* mutant: the new links are appended without the membership test
extend_all(queue, new_pagination) == queue \o new_pagination

\* pagination_links.extend([link for link in new_pagination
\*                          if link not in pagination_links])
extend_new(queue, new_pagination) ==
  queue \o SelectSeq(new_pagination, LAMBDA link : link \notin Range(queue))

\* mutant: a page whose fetch gave nothing is put back at the tail of the queue
PaginationStepRetry ==
  /\ pc = "paginate"
  /\ pagination_links # <<>> /\ pages_scraped < max_pages
  /\ \E r \in FetchResults :
       LET next_page_url == Head(pagination_links)
           rest == Tail(pagination_links)
           page_html == fetch_page(next_page_url, r)
       IN /\ listing_fetches' = listing_fetches + 1
          /\ failed_urls' = IF r = "fail" THEN failed_urls \cup {next_page_url}
                            ELSE failed_urls
          /\ dequeued' = dequeued \cup {next_page_url}
          /\ IF Truthy(page_html)
             THEN /\ \E new_links \in ListsOf(find_blog_links(page_html.doc, base_url, domain)) :
                       blog_links' = blog_links \o new_links
                  /\ \E new_pagination \in
                          ListsOf(find_pagination_links(page_html.doc, base_url, domain)) :
                       /\ pagination_links' = extend_new(rest, new_pagination)
                       /\ last' = [phase |-> "page", url |-> next_page_url, result |-> r,
                                   listed |-> new_pagination]
                  /\ found' = found \cup find_blog_links(page_html.doc, base_url, domain)
             ELSE /\ blog_links' = blog_links
                  /\ pagination_links' = Append(rest, next_page_url)
                  /\ last' = [phase |-> "page", url |-> next_page_url, result |-> r,
                              listed |-> <<>>]
                  /\ found' = found
          /\ pages_scraped' = pages_scraped + 1
  /\ UNCHANGED <<base_url, scraped_urls, files, pc, max_posts, max_pages, idx,
                 post_fetches, saves, pure_vars>>

\* one turn of the while loop, lines 237-252
PaginationStep ==
  /\ pc = "paginate"
  /\ pagination_links # <<>> /\ pages_scraped < max_pages
  /\ \E r \in FetchResults :
       LET next_page_url == Head(pagination_links)
           rest == Tail(pagination_links)
           page_html == fetch_page(next_page_url, r)
       IN /\ listing_fetches' = listing_fetches + 1
          /\ failed_urls' = IF r = "fail" THEN failed_urls \cup {next_page_url}
                            ELSE failed_urls
          /\ dequeued' = dequeued \cup {next_page_url}
          /\ IF Truthy(page_html)
             THEN /\ \E new_links \in ListsOf(find_blog_links(page_html.doc, base_url, domain)) :
                       blog_links' = blog_links \o new_links
                  /\ \E new_pagination \in
                          ListsOf(find_pagination_links(page_html.doc, base_url, domain)) :
                       /\ pagination_links' = extend_new(rest, new_pagination)
                       /\ last' = [phase |-> "page", url |-> next_page_url, result |-> r,
                                   listed |-> new_pagination]
                  /\ found' = found \cup find_blog_links(page_html.doc, base_url, domain)
             ELSE /\ blog_links' = blog_links
                  /\ pagination_links' = rest
                  /\ last' = [phase |-> "page", url |-> next_page_url, result |-> r,
                              listed |-> <<>>]
                  /\ found' = found
          /\ pages_scraped' = pages_scraped + 1
  /\ UNCHANGED <<base_url, scraped_urls, files, pc, max_posts, max_pages, idx,
                 post_fetches, saves, pure_vars>>

\* mutant: the list is cut without going through a set
truncate_keep_duplicates(links, n) == { Take(links, n) }

\* list(set(blog_links))[:max_posts]
truncate(links, n) == { Take(l, n) : l \in ListsOf(Range(links)) }

\* the loop is left, line 254
EndPagination ==
  /\ pc = "paginate"
  /\ ~(pagination_links # <<>> /\ pages_scraped < max_pages)
  /\ blog_links' \in truncate(blog_links, max_posts)
  /\ idx' = 1
  /\ pc' = "posts"
  /\ UNCHANGED <<base_url, scraped_urls, files, max_posts, max_pages,
                 pagination_links, pages_scraped, last, listing_fetches, post_fetches,
                 failed_urls, dequeued, found, saves, pure_vars>>

\* mutant: the visited set is not consulted
never_scraped(link, scraped) == FALSE

\* `if link in self.scraped_urls: continue`
already_scraped(link, scraped) == link \in scraped

\* one turn of the for loop, lines 258-270
PostStep ==
  /\ pc = "posts" /\ idx <= Len(blog_links)
  /\ LET link == blog_links[idx]
     IN IF already_scraped(link, scraped_urls)
        THEN UNCHANGED <<scraped_urls, files, last, post_fetches, failed_urls, saves>>
        ELSE \E r \in FetchResults :
               LET html_content == fetch_page(link, r)
               IN /\ post_fetches' = post_fetches + 1
                  /\ failed_urls' = IF r = "fail" THEN failed_urls \cup {link}
                                    ELSE failed_urls
                  /\ last' = [phase |-> "post", url |-> link, result |-> r, listed |-> <<>>]
                  /\ IF Truthy(html_content)
                     THEN /\ files' = save_post(files,
                                        extract_blog_content(html_content.doc, link))
                          /\ scraped_urls' = scraped_urls \cup {link}
                          /\ saves' = [saves EXCEPT ![link] = @ + 1]
                     ELSE UNCHANGED <<files, scraped_urls, saves>>
  /\ idx' = idx + 1
  /\ UNCHANGED <<base_url, pc, max_posts, max_pages, blog_links, pagination_links,
                 pages_scraped, listing_fetches, dequeued, found, pure_vars>>

\* the for loop is over: scrape() returns, line 272; its locals are gone
\* and only the visited set and the files remain
FinishScrape ==
  /\ pc = "posts" /\ idx > Len(blog_links)
  /\ pc' = "idle"
  /\ max_posts' = 0 /\ max_pages' = 0
  /\ blog_links' = <<>> /\ pagination_links' = <<>> /\ pages_scraped' = 0
  /\ idx' = 0
  /\ last' = NoFetch
  /\ listing_fetches' = 0 /\ post_fetches' = 0
  /\ failed_urls' = {} /\ dequeued' = {} /\ found' = {}
  /\ UNCHANGED <<base_url, scraped_urls, files, saves, pure_vars>>

Next == StartScrape \/ PaginationStep \/ EndPagination \/ PostStep \/ FinishScrape

Spec == Init /\ [][Next]_vars

\* ------------------------------------------- the link classifier by itself

(***************************************************************************)
(* The pages the classifier is applied to: up to MaxLinkElems top-level    *)
(* nodes, each a container holding one anchor (an article, a pagination    *)
(* block, a plain div, or an article that is also a pagination block), or  *)
(* a span with the classes post-link and page-numbers and no href.         *)
(***************************************************************************)
MaxLinkElems == 2

LinkHrefs ==
  { <<"/","b","l","o","g","/","a">>,   \* /blog/a
    <<"#","/","b","l","o","g","/","a">>,   \* #/blog/a
    <<"j","a","v","a","s","c","r","i","p","t",":","/","/","d","/","b","l","o","g","/","a">>,   \* javascript://d/blog/a
    <<"h","t","t","p",":","/","/","e","/","b","l","o","g","/","a">>,   \* http://e/blog/a
    <<"/","p","a","g","e","/","2">>,   \* /page/2
    <<>> }  \* href=""

LinkContexts ==
  { [tag |-> "article", attrs |-> NoAttrs],
    [tag |-> "div", attrs |-> CLASS :> <<<<"p","a","g","i","n","a","t","i","o","n">>>>],
    [tag |-> "div", attrs |-> NoAttrs],
    [tag |-> "article", attrs |-> CLASS :> <<<<"p","a","g","i","n","a","t","i","o","n">>>>] }

LinkNodes ==
  { Box(c.tag, c.attrs, << Anchor(h) >>) : c \in LinkContexts, h \in LinkHrefs }
  \cup { Node("span", CLASS :> <<<<"p","o","s","t","-","l","i","n","k">>, <<"p","a","g","e","-","n","u","m","b","e","r","s">>>>, <<>>, <<>>) }

SeqsUpTo(S, n) == UNION { [1..k -> S] : k \in 0..n }

InitLinks ==
  /\ base_url = SEED
  /\ CrawlInit /\ files = {}
  /\ in_doc \in SeqsUpTo(LinkNodes, MaxLinkElems)
  /\ out_posts = {} /\ out_pag = {}
  /\ out_rec = extract_blog_content(<<>>, <<>>) /\ done = {}

ClassifyPosts ==
  /\ "posts" \notin done
  /\ out_posts' = find_blog_links(in_doc, base_url, domain)
  /\ done' = done \cup {"posts"}
  /\ UNCHANGED <<base_url, crawl_vars, in_doc, out_pag, out_rec>>

ClassifyPagination ==
  /\ "pag" \notin done
  /\ out_pag' = find_pagination_links(in_doc, base_url, domain)
  /\ done' = done \cup {"pag"}
  /\ UNCHANGED <<base_url, crawl_vars, in_doc, out_posts, out_rec>>

NextLinks == ClassifyPosts \/ ClassifyPagination

SpecLinks == InitLinks /\ [][NextLinks]_vars

\* ------------------------------------------------ the extractor by itself

(***************************************************************************)
(* The post pages the extractor is applied to: up to MaxPostElems          *)
(* top-level nodes out of headings, titles, dates, authors, categories     *)
(* and content containers, some of them with empty or blank text.          *)
(***************************************************************************)
MaxPostElems == 2

Plain(tag, attrs, text) == Node(tag, attrs, text, <<>>)
Meta(attrs) == Node("meta", attrs, <<>>, <<>>)

PostNodes ==
  { Plain("h1", NoAttrs, <<>>),
    Plain("h1", NoAttrs, <<" ","T"," ">>),
    Plain("div", CLASS :> <<<<"p","o","s","t","-","t","i","t","l","e">>>>, <<"P">>),
    Plain("time", NoAttrs, <<" ">>),
    Meta((PROPERTY :> MetaPublished.attr[2]) @@ (CONTENT :> <<"2","0","2","4">>)),
    Plain("span", CLASS :> <<<<"d","a","t","e">>>>, <<"D">>),
    Plain("div", CLASS :> <<<<"a","u","t","h","o","r">>>>, <<>>),
    Meta((NAME :> MetaAuthor.attr[2]) @@ (CONTENT :> <<"M","e">>)),
    Plain("span", CLASS :> <<<<"c","a","t","e","g","o","r","y">>>>, <<"c","1">>),
    Plain("span", CLASS :> <<<<"c","a","t","e","g","o","r","y">>>>, <<>>),
    Plain("span", CLASS :> <<<<"t","a","g","s">>>>, <<"t">>),
    Box("article", NoAttrs, << TextLeaf("script", NoAttrs, <<"x","=","1">>), TextLeaf("p", NoAttrs, <<"B">>) >>),
    Box("article", NoAttrs, <<>>),
    Plain("div", (<<"i","d">> :> <<"m">>) @@ (CLASS :> <<<<"e","n","t","r","y","-","c","o","n","t","e","n","t">>>>),
          <<"E","&">>) }

InitExtract ==
  /\ base_url = SEED
  /\ CrawlInit /\ files = {}
  /\ in_doc \in SeqsUpTo(PostNodes, MaxPostElems)
  /\ out_posts = {} /\ out_pag = {}
  /\ out_rec = extract_blog_content(<<>>, <<>>) /\ done = {}

ExtractRecord ==
  /\ "rec" \notin done
  /\ out_rec' = extract_blog_content(in_doc, POST_A)
  /\ done' = done \cup {"rec"}
  /\ UNCHANGED <<base_url, crawl_vars, in_doc, out_posts, out_pag>>

NextExtract == ExtractRecord

SpecExtract == InitExtract /\ [][NextExtract]_vars

\* ---------------------------------------------------------------- claims

NoDuplicates(l) == \A i, j \in 1..Len(l) : l[i] = l[j] => i = j

\* a step of scrape() that fetches a listing page from the queue / a post page
PageFetchStep == pc = "paginate" /\ listing_fetches' = listing_fetches + 1
PostFetchStep == pc = "posts" /\ post_fetches' = post_fetches + 1
\* the loop condition of the pagination walk
WalkGoesOn == pagination_links # <<>> /\ pages_scraped < max_pages

(***************************************************************************)
(* C1: in every call of scrape() the listing pages fetched, the seed page  *)
(* counted as the first, are at most max_pages, for every max_pages value. *)
(***************************************************************************)
C1_AtMostMaxPagesFetches ==
  listing_fetches <= max_pages

\* what holds instead: the seed is always fetched, and the walk adds at most
\* max_pages - 1 listing pages to it, whatever the link graph
C1_SeedPlusWalkBound ==
  /\ (pc # "idle") => listing_fetches = pages_scraped
  /\ (pc # "idle" /\ max_pages >= 1) => listing_fetches <= max_pages
  /\ (max_pages = 0) => listing_fetches <= 1

(***************************************************************************)
(* C3: if the fetch of the seed page fails, scrape() returns at once: no   *)
(* pagination or post page is fetched, nothing is saved and the visited    *)
(* set is unchanged; and no other failed fetch ends the call: a call that  *)
(* got past the seed returns only after the walk is over and every entry   *)
(* of the post list was processed.                                         *)
(***************************************************************************)
C3_OnlySeedFailureAborts ==
  [][ /\ (pc = "idle" /\ last'.result = "fail")
         => /\ pc' = "idle"
            /\ last'.phase = "seed"
            /\ listing_fetches' = 1 /\ post_fetches' = 0
            /\ files' = files /\ scraped_urls' = scraped_urls /\ saves' = saves
      /\ ((PageFetchStep \/ PostFetchStep) /\ last'.result = "fail") => pc' = pc
      /\ (pc # "idle" /\ pc' = "idle")
         => idx > Len(blog_links) /\ ~WalkGoesOn ]_vars

\* a call fails on the seed after an earlier call saved a post
C3_Witness ==
  /\ pc = "idle"
  /\ last.phase = "seed" /\ last.result = "fail"
  /\ scraped_urls # {} /\ files # {}

(***************************************************************************)
(* C4 as claimed: a pagination or post URL whose fetch failed is never     *)
(* fetched a second time within that call.                                 *)
(***************************************************************************)
C4_FailedUrlNeverFetchedAgain ==
  [][ /\ PageFetchStep => Head(pagination_links) \notin failed_urls
      /\ PostFetchStep => blog_links[idx] \notin failed_urls ]_vars

(***************************************************************************)
(* C4 amended: a failed fetch of a pagination or post URL is skipped       *)
(* without ending the call, and the failed attempt is not repeated: the    *)
(* step consumes exactly that queue entry or post-list entry, the URL is   *)
(* not put back, no link is added; every queue entry taken gets exactly    *)
(* one fetch attempt, and every post-list entry taken gets exactly one     *)
(* unless it is in the visited set (then none).  (The URL is fetched again *)
(* in that call only when a later page lists it again or when it is in the *)
(* post list too.)                                                         *)
(***************************************************************************)
C4_FailureSkippedNotRetried ==
  [][ /\ (PageFetchStep /\ last'.result = "fail")
         => /\ pc' = "paginate"
            /\ last'.url = Head(pagination_links)
            /\ pagination_links' = Tail(pagination_links)
            /\ last'.url \notin Range(pagination_links')
            /\ blog_links' = blog_links
            /\ pages_scraped' = pages_scraped + 1
      /\ (PostFetchStep /\ last'.result = "fail")
         => /\ pc' = "posts"
            /\ last'.url = blog_links[idx]
            /\ blog_links' = blog_links /\ idx' = idx + 1
            /\ files' = files /\ scraped_urls' = scraped_urls
      /\ (pc' = "paginate") => listing_fetches' = pages_scraped'
      /\ (pc' = "posts") => post_fetches' <= idx' - 1
      /\ (pc = "posts" /\ idx <= Len(blog_links))
         => post_fetches' = post_fetches
                            + (IF blog_links[idx] \in scraped_urls THEN 0 ELSE 1) ]_vars

\* after a failed listing fetch the call went on and saved a post
C4_Witness ==
  /\ pc = "posts"
  /\ \E u \in failed_urls : u \in dequeued
  /\ last.phase = "post" /\ last.result = "ok" /\ saves[last.url] = 1

(***************************************************************************)
(* C5: every post URL of the final post list whose page fetch succeeds     *)
(* has a record extracted and saved, whatever the page holds (an empty     *)
(* body included).                                                         *)
(***************************************************************************)
C5_FetchedPostIsSaved ==
  (last.phase = "post" /\ last.result # "fail")
    => /\ saves[last.url] >= 1
       /\ last.url \in scraped_urls

(***************************************************************************)
(* C6 as claimed: over all calls of scrape() on one scraper, a post URL    *)
(* goes through a successful fetch/extract/save at most once: a URL enters *)
(* the visited set only in the step that wrote its record, and a URL that  *)
(* is in the visited set is never fetched or saved again, whatever the     *)
(* fetch is for (the seed, a listing page of the queue, a post).           *)
(***************************************************************************)
C6_VisitedNeverFetchedAgain ==
  [][ /\ \A u \in SiteUrls :
           /\ saves'[u] <= 1
           /\ (u \in scraped_urls' \ scraped_urls) => saves'[u] = saves[u] + 1
           /\ (saves'[u] # saves[u]) => u \notin scraped_urls
      /\ (pc = "idle") => base_url \notin scraped_urls
      /\ PageFetchStep => Head(pagination_links) \notin scraped_urls
      /\ PostFetchStep => blog_links[idx] \notin scraped_urls ]_vars

(***************************************************************************)
(* C6 amended: over all calls of scrape() on one scraper, a post URL goes  *)
(* through a successful fetch/extract/save at most once: a URL enters the  *)
(* visited set only in the step that wrote its record, and the post loop   *)
(* neither fetches nor saves a URL that is in the visited set.  The        *)
(* fetches of the seed and of the queued listing pages do not consult the  *)
(* visited set (a visited URL that is a pagination link too is fetched     *)
(* again there), and they save nothing and mark nothing visited.           *)
(***************************************************************************)
C6_PostProcessedAtMostOnce ==
  [][ /\ \A u \in SiteUrls :
           /\ saves'[u] <= 1
           /\ (u \in scraped_urls' \ scraped_urls)
              => /\ saves'[u] = saves[u] + 1
                 /\ [name |-> post_filename(extract_blog_content(Web(u), u)),
                     data |-> extract_blog_content(Web(u), u)] \in files'
           /\ (saves'[u] # saves[u]) => u \notin scraped_urls
      /\ PostFetchStep => blog_links[idx] \notin scraped_urls
      /\ (pc = "posts" /\ idx <= Len(blog_links) /\ blog_links[idx] \in scraped_urls)
         => files' = files /\ post_fetches' = post_fetches
      /\ (pc # "posts")
         => files' = files /\ scraped_urls' = scraped_urls /\ saves' = saves ]_vars

\* in a later call the walk has fetched, as a listing page, a URL saved by an
\* earlier call, and the post loop has just skipped that URL
C6_Witness ==
  /\ pc = "posts" /\ idx = 2
  /\ blog_links[1] \in scraped_urls
  /\ blog_links[1] \in dequeued
  /\ post_fetches = 0 /\ saves[blog_links[1]] = 1

(***************************************************************************)
(* C9: the post list handed to the scraping phase has no duplicate, at     *)
(* most max_posts entries, and only post links classified from the seed    *)
(* or from a pagination page fetched with success in this call.            *)
(***************************************************************************)
C9_FinalPostList ==
  (pc = "posts")
    => /\ NoDuplicates(blog_links)
       /\ Len(blog_links) <= max_posts
       /\ Range(blog_links) \subseteq found

\* the list was cut: more post links were found than max_posts allows
C9_Witness ==
  /\ pc = "posts" /\ max_posts >= 1
  /\ Len(blog_links) = max_posts
  /\ Cardinality(found) > max_posts
  /\ dequeued # {}

(***************************************************************************)
(* C10: the pending queue never holds a URL twice; a step of the walk      *)
(* takes the head, and after a successful fetch appends to the tail, in    *)
(* the order in which the classifier returned them, exactly the page's     *)
(* pagination links that are not in the queue at that moment (a URL        *)
(* dequeued before may come back); after a fetch without a body nothing    *)
(* is appended.                                                            *)
(***************************************************************************)
C10_QueueDiscipline ==
  [][ /\ NoDuplicates(pagination_links')
      /\ PageFetchStep
         => /\ last'.url = Head(pagination_links)
            /\ Range(last'.listed) =
                 (IF last'.result = "ok"
                  THEN find_pagination_links(Web(last'.url), base_url, domain) ELSE {})
            /\ pagination_links' =
                 Tail(pagination_links)
                 \o SelectSeq(last'.listed,
                              LAMBDA u : u \notin Range(Tail(pagination_links))) ]_vars

\* a URL that was dequeued is in the queue again
C10_Witness ==
  /\ pc = "paginate"
  /\ \E u \in dequeued : u \in Range(pagination_links)

(***************************************************************************)
(* C2: an anchor whose href begins with '#' or with 'javascript:' never    *)
(* contributes a URL to the post links or to the pagination links: every   *)
(* returned URL is the resolved href of an element whose href begins with  *)
(* neither.                                                                *)
(***************************************************************************)
CleanHrefUrls(doc) ==
  { urljoin(base_url, get(e, HREF)) :
      e \in { f \in Range(Elements(doc)) :
                /\ has_attr(f, HREF)
                /\ ~startswith(get(f, HREF), HASH)
                /\ ~startswith(get(f, HREF), JAVASCRIPT) } }

C2_NoFragmentOrScriptHref ==
  /\ ("posts" \in done) => out_posts \subseteq CleanHrefUrls(in_doc)
  /\ ("pag" \in done) => out_pag \subseteq CleanHrefUrls(in_doc)

(***************************************************************************)
(* C7 as claimed: the post links and the pagination links of one page are  *)
(* disjoint.                                                               *)
(***************************************************************************)
C7_Disjoint ==
  ({"posts", "pag"} \subseteq done) => out_posts \cap out_pag = {}

(***************************************************************************)
(* C7 amended: the two sets may overlap, and a URL is in both only when    *)
(* the page carries it on an element that matches a pagination selector    *)
(* and on an element (the same or another) that matches a post selector    *)
(* or is an anchor; on every other page the sets are disjoint.             *)
(***************************************************************************)
UrlsOf(doc, Pick(_)) ==
  { urljoin(base_url, get(e, HREF)) : e \in { f \in Range(Elements(doc)) : has_attr(f, HREF) /\ Pick(f) } }
MatchesAny(sels, e) == \E k \in 1..Len(sels) : Matches(sels[k], e)

C7_OverlapOnlyOnSharedUrls ==
  ({"posts", "pag"} \subseteq done)
    => out_posts \cap out_pag \subseteq
         UrlsOf(in_doc, LAMBDA e : MatchesAny(PaginationSelectors, e))
         \cap UrlsOf(in_doc, LAMBDA e : MatchesAny(BlogSelectors, e) \/ e.tag = "a")

\* a page whose post links and pagination links share a URL
C7_Witness ==
  /\ {"posts", "pag"} \subseteq done
  /\ out_posts \cap out_pag # {}

(***************************************************************************)
(* C8 as claimed: each field is the first non-empty match: a selector      *)
(* whose match gives an empty value does not stop the probing when a       *)
(* later selector gives a non-empty one.                                   *)
(***************************************************************************)
\* the value selector sel gives for a field
TextValue(doc, sel) == strip(get_text(select_one(doc, sel)))
MetaValue(doc, sel, meta) ==
  IF sel = meta THEN get(select_one(doc, sel), CONTENT) ELSE TextValue(doc, sel)
ListValue(doc, sel) ==
  [i \in 1..Len(select(doc, sel)) |-> strip(get_text(select(doc, sel)[i]))]
ContentValue(doc, sel) == strip(get_text(decompose_scripts(select_one(doc, sel))))

\* the first non-empty value along the selectors, empty when there is none
FirstNonEmpty(doc, sels, Value(_, _)) ==
  LET good == {k \in 1..Len(sels) :
                 select_one_found(doc, sels[k]) /\ Value(doc, sels[k]) # <<>>}
  IN IF good = {} THEN <<>>
     ELSE Value(doc, sels[CHOOSE k \in good : \A j \in good : k <= j])

C8_FirstNonEmptyMatch ==
  ("rec" \in done)
    => /\ out_rec.title = FirstNonEmpty(in_doc, TitleSelectors, TextValue)
       /\ out_rec.date = FirstNonEmpty(in_doc, DateSelectors,
                                       LAMBDA d, sl : MetaValue(d, sl, MetaPublished))
       /\ out_rec.author = FirstNonEmpty(in_doc, AuthorSelectors,
                                         LAMBDA d, sl : MetaValue(d, sl, MetaAuthor))
       /\ out_rec.categories = FirstNonEmpty(in_doc, CategorySelectors, ListValue)
       /\ out_rec.content = FirstNonEmpty(in_doc, ContentSelectors, ContentValue)

(***************************************************************************)
(* C8 amended: each field is the value of the first selector, in the       *)
(* field's fixed order, that matches any element, also when that value is  *)
(* empty; later selectors are not probed.  Without a match the field is    *)
(* empty.                                                                  *)
(***************************************************************************)
\* selector k is the first one of sels that matches
IsFirstMatch(doc, sels, k) ==
  /\ select(doc, sels[k]) # <<>>
  /\ \A j \in 1..(k - 1) : select(doc, sels[j]) = <<>>
NoMatch(doc, sels) == \A k \in 1..Len(sels) : select(doc, sels[k]) = <<>>

FieldIs(doc, sels, Value(_, _), v) ==
  /\ NoMatch(doc, sels) => v = <<>>
  /\ \A k \in 1..Len(sels) : IsFirstMatch(doc, sels, k) => v = Value(doc, sels[k])

C8_FirstMatchingSelector ==
  ("rec" \in done)
    => /\ FieldIs(in_doc, TitleSelectors, TextValue, out_rec.title)
       /\ FieldIs(in_doc, DateSelectors,
                  LAMBDA d, sl : MetaValue(d, sl, MetaPublished), out_rec.date)
       /\ FieldIs(in_doc, AuthorSelectors,
                  LAMBDA d, sl : MetaValue(d, sl, MetaAuthor), out_rec.author)
       /\ FieldIs(in_doc, CategorySelectors, ListValue, out_rec.categories)
       /\ FieldIs(in_doc, ContentSelectors, ContentValue, out_rec.content)

\* an empty <h1> came first and a later title selector had a title to give
C8_Witness ==
  /\ "rec" \in done
  /\ out_rec.title = <<>>
  /\ FirstNonEmpty(in_doc, TitleSelectors, TextValue) # <<>>

====
